---- MODULE Spec2Model ----
(***************************************************************************)
(* A model of pyEight: the device snapshot history kept by EightSleep      *)
(* (src/pyeight/eight.py) and the per-side accessors, session views and    *)
(* presence inference of EightUser (src/pyeight/user.py).                  *)
(*                                                                         *)
(* Python values are encoded as follows.                                   *)
(*   - an optional value is a set: None is {} and a value v is {v};        *)
(*   - a dict is a function (record) whose DOMAIN is the set of its keys,  *)
(*     so that a missing key is a KeyError and not a default;              *)
(*   - a list is a sequence; Python index i is TLA+ index i + 1;           *)
(*   - the outcome of a call is a record [exc, val]: exc is "none" when    *)
(*     the call returned (val is then the optional returned value) and the *)
(*     name of the Python exception when it raised.                        *)
(***************************************************************************)
EXTENDS Integers, Sequences, FiniteSets, TLC

VARIABLES
    device_json_list,   \* EightSleep._device_json_list, newest first
    users,              \* EightSleep.users: user id -> EightUser fields
    api_session,        \* EightSleep._api_session: "None", "external", "internal"
    internal_session,   \* EightSleep._internal_session
    token,              \* EightSleep._token (optional)
    device_ids,         \* EightSleep._device_ids
    assigned,           \* history: the user ids registered by assign_users
    pushed,             \* history: every snapshot pushed so far, oldest first
    token_expiration,   \* EightSleep._token_expiration (optional)
    user_order,         \* the keys of EightSleep.users in insertion order
    cycles,             \* where each update_device_data coroutine is suspended
    ret                 \* the last call: its name, receiver, argument and outcome

vars == <<device_json_list, users, api_session, internal_session, token,
          device_ids, assigned, pushed, token_expiration, user_order, cycles,
          ret>>

-----------------------------------------------------------------------------
(* Python values *)

None == {}

Some(v) == {v}

The(s) == CHOOSE x \in s : TRUE

Return(v) == [exc |-> "none", val |-> Some(v)]

ReturnNone == [exc |-> "none", val |-> None]

Raise(e) == [exc |-> e, val |-> None]

Min(a, b) == IF a <= b THEN a ELSE b

\* the record of a call kept in ret: arg holds what the call was given, or
\* what it did besides returning
Call(op, user, arg, res) ==
    [op |-> op, user |-> user, arg |-> arg, exc |-> res.exc, val |-> res.val]

Put(f, k, v) == [x \in DOMAIN f \cup {k} |-> IF x = k THEN v ELSE f[x]]

\* d[k] on a dict: KeyError when the key is missing
GetItem(d, k) == IF k \in DOMAIN d THEN Return(d[k]) ELSE Raise("KeyError")

\* l[i] on a list, for a Python index i >= -1: IndexError when out of range
ListItem(l, i) ==
    LET j == IF i < 0 THEN Len(l) + i + 1 ELSE i + 1
    IN  IF j >= 1 /\ j <= Len(l) THEN Return(l[j]) ELSE Raise("IndexError")

-----------------------------------------------------------------------------
(* EightSleep: the snapshot history *)

\* the literal 10 of handle_device_json
HistoryCapacity == 10

\* a mutation: the new snapshot is appended instead of prepended
handle_device_json_appends(list, data) ==
    SubSeq(list \o <<data>>, 1, Min(Len(list) + 1, HistoryCapacity))

\* a mutation: the list is prepended to and not truncated
handle_device_json_prepends(list, data) == <<data>> \o list

\* [data, *self._device_json_list][:10]
handle_device_json(list, data) ==
    SubSeq(<<data>> \o list, 1, Min(Len(list) + 1, HistoryCapacity))

\* a mutation: an empty history reads as None
device_data_or_none(list) == IF list = <<>> THEN ReturnNone ELSE ListItem(list, 0)

\* self._device_json_list[0]
device_data(list) == ListItem(list, 0)

-----------------------------------------------------------------------------
(* EightUser: the per-side accessors *)

\* The body shared by the four accessors:
\*     try:
\*         if self.side == 'Left':    level = self.device.device_data[leftKey]
\*         elif self.side == 'Right': level = self.device.device_data[rightKey]
\*         return level
\*     except TypeError:
\*         return None
\* With any other side no branch binds the local, and `return level` raises
\* UnboundLocalError, which the handler does not catch.
SideField(self, list, leftKey, rightKey) ==
    IF self.side = "Left" \/ self.side = "Right"
    THEN LET d == device_data(list)
             k == IF self.side = "Left" THEN leftKey ELSE rightKey
         IN  IF d.exc = "TypeError" THEN ReturnNone
             ELSE IF d.exc # "none" THEN d
             ELSE LET v == GetItem(The(d.val), k)
                  IN  IF v.exc = "TypeError" THEN ReturnNone ELSE v
    ELSE Raise("UnboundLocalError")

target_heating_level(self, list) ==
    SideField(self, list, "leftTargetHeatingLevel", "rightTargetHeatingLevel")

heating_level(self, list) ==
    SideField(self, list, "leftHeatingLevel", "rightHeatingLevel")

now_heating(self, list) ==
    SideField(self, list, "leftNowHeating", "rightNowHeating")

heating_remaining(self, list) ==
    SideField(self, list, "leftHeatingDuration", "rightHeatingDuration")

\* the dict is built entry by entry; the first accessor that raises ends it
heating_values(self, list) ==
    LET level == heating_level(self, list)
        target == target_heating_level(self, list)
        active == now_heating(self, list)
        remaining == heating_remaining(self, list)
    IN  IF level.exc # "none" THEN Raise(level.exc)
        ELSE IF target.exc # "none" THEN Raise(target.exc)
        ELSE IF active.exc # "none" THEN Raise(active.exc)
        ELSE IF remaining.exc # "none" THEN Raise(remaining.exc)
        ELSE Return([level |-> level.val, target |-> target.val,
                     active |-> active.val, remaining |-> remaining.val])

-----------------------------------------------------------------------------
(* EightUser: construction and presence inference *)

\* __init__: self.data = device.device_data reads the head of the history, an
\* IndexError while the history is empty; no object is created then.
EightUser(list, userid, side) ==
    LET d == device_data(list)
    IN  IF d.exc # "none" THEN Raise(d.exc)
        ELSE Return([userid |-> userid, side |-> side, intervals |-> None,
                     data |-> d.val, past_heating_level |-> None,
                     presence |-> FALSE])

\* `if x:` on an optional boolean
Truthy(v) == v = Some(TRUE)

\* a mutation: presence is assigned the present-condition itself instead of
\* being set only when the condition holds
dynamic_presence_assigns(self, list) ==
    LET nh == now_heating(self, list)
        hl == heating_level(self, list)
        th == target_heating_level(self, list)
    IN  IF nh.exc # "none" THEN [exc |-> nh.exc, presence |-> self.presence]
        ELSE IF hl.exc # "none" THEN [exc |-> hl.exc, presence |-> self.presence]
        ELSE IF Truthy(nh.val) /\ th.exc # "none"
             THEN [exc |-> th.exc, presence |-> self.presence]
        ELSE IF hl.val = None \/ (Truthy(nh.val) /\ th.val = None)
             THEN [exc |-> "TypeError", presence |-> self.presence]
        ELSE LET level == The(hl.val)
                 heat_delta == IF Truthy(nh.val) THEN level - The(th.val)
                               ELSE level - 10
                 p1 == heat_delta >= 8 /\ level >= 25
             IN  [exc |-> "none",
                  presence |-> IF ~Truthy(nh.val) /\ level <= 15 THEN FALSE
                               ELSE IF Truthy(nh.val) /\ heat_delta < 8 THEN FALSE
                               ELSE p1]

\* dynamic_presence with its two tests exchanged: the absent-conditions are
\* tested first and the present-condition last
dynamic_presence_swapped(self, list) ==
    LET nh == now_heating(self, list)
        hl == heating_level(self, list)
        th == target_heating_level(self, list)
    IN  IF nh.exc # "none" THEN [exc |-> nh.exc, presence |-> self.presence]
        ELSE IF hl.exc # "none" THEN [exc |-> hl.exc, presence |-> self.presence]
        ELSE IF Truthy(nh.val) /\ th.exc # "none"
             THEN [exc |-> th.exc, presence |-> self.presence]
        ELSE IF hl.val = None \/ (Truthy(nh.val) /\ th.val = None)
             THEN [exc |-> "TypeError", presence |-> self.presence]
        ELSE LET level == The(hl.val)
                 heat_delta == IF Truthy(nh.val) THEN level - The(th.val)
                               ELSE level - 10
                 p1 == IF ~Truthy(nh.val) /\ level <= 15 THEN FALSE
                       ELSE IF Truthy(nh.val) /\ heat_delta < 8 THEN FALSE
                       ELSE self.presence
             IN  [exc |-> "none",
                  presence |-> IF heat_delta >= 8 /\ level >= 25 THEN TRUE ELSE p1]

\* a mutation: the tests are exchanged and the present-condition is
\* heating_level >= 25 alone
dynamic_presence_level_only(self, list) ==
    LET nh == now_heating(self, list)
        hl == heating_level(self, list)
        th == target_heating_level(self, list)
    IN  IF nh.exc # "none" THEN [exc |-> nh.exc, presence |-> self.presence]
        ELSE IF hl.exc # "none" THEN [exc |-> hl.exc, presence |-> self.presence]
        ELSE IF Truthy(nh.val) /\ th.exc # "none"
             THEN [exc |-> th.exc, presence |-> self.presence]
        ELSE IF hl.val = None \/ (Truthy(nh.val) /\ th.val = None)
             THEN [exc |-> "TypeError", presence |-> self.presence]
        ELSE LET level == The(hl.val)
                 heat_delta == IF Truthy(nh.val) THEN level - The(th.val)
                               ELSE level - 10
                 p1 == IF ~Truthy(nh.val) /\ level <= 15 THEN FALSE
                       ELSE IF Truthy(nh.val) /\ heat_delta < 8 THEN FALSE
                       ELSE self.presence
             IN  [exc |-> "none",
                  presence |-> IF level >= 25 THEN TRUE ELSE p1]

\* a mutation: the present-condition tests heat_delta > 8
dynamic_presence_strict(self, list) ==
    LET nh == now_heating(self, list)
        hl == heating_level(self, list)
        th == target_heating_level(self, list)
    IN  IF nh.exc # "none" THEN [exc |-> nh.exc, presence |-> self.presence]
        ELSE IF hl.exc # "none" THEN [exc |-> hl.exc, presence |-> self.presence]
        ELSE IF Truthy(nh.val) /\ th.exc # "none"
             THEN [exc |-> th.exc, presence |-> self.presence]
        ELSE IF hl.val = None \/ (Truthy(nh.val) /\ th.val = None)
             THEN [exc |-> "TypeError", presence |-> self.presence]
        ELSE LET level == The(hl.val)
                 heat_delta == IF Truthy(nh.val) THEN level - The(th.val)
                               ELSE level - 10
                 p1 == IF heat_delta > 8 /\ level >= 25 THEN TRUE
                       ELSE self.presence
             IN  [exc |-> "none",
                  presence |-> IF ~Truthy(nh.val) /\ level <= 15 THEN FALSE
                               ELSE IF Truthy(nh.val) /\ heat_delta < 8 THEN FALSE
                               ELSE p1]

\* a mutation: the present-condition also requires that the level has not
\* fallen below the level recorded in self.past_heating_level
dynamic_presence_tracks_level(self, list) ==
    LET nh == now_heating(self, list)
        hl == heating_level(self, list)
        th == target_heating_level(self, list)
    IN  IF nh.exc # "none" THEN [exc |-> nh.exc, presence |-> self.presence]
        ELSE IF hl.exc # "none" THEN [exc |-> hl.exc, presence |-> self.presence]
        ELSE IF Truthy(nh.val) /\ th.exc # "none"
             THEN [exc |-> th.exc, presence |-> self.presence]
        ELSE IF hl.val = None \/ (Truthy(nh.val) /\ th.val = None)
             THEN [exc |-> "TypeError", presence |-> self.presence]
        ELSE LET level == The(hl.val)
                 heat_delta == IF Truthy(nh.val) THEN level - The(th.val)
                               ELSE level - 10
                 rising == \/ self.past_heating_level = None
                           \/ level >= The(self.past_heating_level)
                 p1 == IF heat_delta >= 8 /\ level >= 25 /\ rising THEN TRUE
                       ELSE self.presence
             IN  [exc |-> "none",
                  presence |-> IF ~Truthy(nh.val) /\ level <= 15 THEN FALSE
                               ELSE IF Truthy(nh.val) /\ heat_delta < 8 THEN FALSE
                               ELSE p1]

\* dynamic_presence, statement by statement; the outcome is the exception
\* raised, if any, and the value self.presence is left with.
\*   428-433  heat_delta from now_heating, heating_level, target_heating_level
\*   435-437  if heat_delta >= 8 and self.heating_level >= 25: presence = True
\*   439-444  if not now_heating and heating_level <= 15: presence = False
\*            elif now_heating and heat_delta < 8:         presence = False
\* An arithmetic operation or an ordering comparison on None is a TypeError.
dynamic_presence(self, list) ==
    LET nh == now_heating(self, list)
        hl == heating_level(self, list)
        th == target_heating_level(self, list)
        Fails(e, p) == [exc |-> e, presence |-> p]
    IN  IF nh.exc # "none" THEN Fails(nh.exc, self.presence)
        ELSE IF hl.exc # "none" THEN Fails(hl.exc, self.presence)
        ELSE IF Truthy(nh.val) /\ th.exc # "none" THEN Fails(th.exc, self.presence)
        ELSE IF Truthy(nh.val) /\ (hl.val = None \/ th.val = None)
             THEN Fails("TypeError", self.presence)
        ELSE LET heat_delta == IF Truthy(nh.val) THEN The(hl.val) - The(th.val)
                               ELSE IF hl.val # None THEN The(hl.val) - 10
                               ELSE 0
             IN  IF heat_delta >= 8 /\ hl.val = None
                 THEN Fails("TypeError", self.presence)
                 ELSE LET p1 == IF heat_delta >= 8 /\ The(hl.val) >= 25 THEN TRUE
                                ELSE self.presence
                      IN  IF ~Truthy(nh.val) /\ hl.val = None
                          THEN Fails("TypeError", p1)
                          ELSE IF ~Truthy(nh.val) /\ The(hl.val) <= 15
                               THEN [exc |-> "none", presence |-> FALSE]
                          ELSE IF Truthy(nh.val) /\ heat_delta < 8
                               THEN [exc |-> "none", presence |-> FALSE]
                          ELSE [exc |-> "none", presence |-> p1]

-----------------------------------------------------------------------------
(* EightUser: the session views over self.intervals *)

\* uncaught exceptions pass; `except KeyError:` of a current_* property
\* turns a KeyError into None
CaughtKeyError(x) == IF x.exc = "KeyError" THEN ReturnNone ELSE x

\* The opening of every current_* property:
\*     try:
\*         incomplete = self.intervals[0]['incomplete']
\*         if incomplete is True:
\*             <read self.intervals[0]>
\*     except KeyError:
\*         x = None
\*     return x
\* None[0] is a TypeError and [][0] an IndexError, neither caught; a missing
\* 'incomplete' key gives None; a flag that is not True binds nothing and
\* `return x` raises UnboundLocalError.  Otherwise the session to read.
CurrentSession(intervals) ==
    IF intervals = None THEN Raise("TypeError")
    ELSE LET first == ListItem(The(intervals), 0)
         IN  IF first.exc # "none" THEN first
             ELSE LET incomplete == GetItem(The(first.val), "incomplete")
                  IN  IF incomplete.exc = "KeyError" THEN ReturnNone
                      ELSE IF incomplete.val # Some(TRUE)
                           THEN Raise("UnboundLocalError")
                      ELSE first

\* session['timeseries'][name]
Series(session, name) ==
    LET ts == GetItem(session, "timeseries")
    IN  IF ts.exc # "none" THEN ts ELSE GetItem(The(ts.val), name)

\* xs[len(xs) - 1][1] on session['timeseries'][name]
LastSample(session, name) ==
    LET xs == Series(session, name)
    IN  IF xs.exc # "none" THEN xs
        ELSE LET x == ListItem(The(xs.val), Len(The(xs.val)) - 1)
             IN  IF x.exc # "none" THEN x ELSE ListItem(The(x.val), 1)

\* stages[len(stages) - 1]['stage'] on session['stages']
LastStage(session) ==
    LET stages == GetItem(session, "stages")
    IN  IF stages.exc # "none" THEN stages
        ELSE LET x == ListItem(The(stages.val), Len(The(stages.val)) - 1)
             IN  IF x.exc # "none" THEN x ELSE GetItem(The(x.val), "stage")

RECURSIVE StageSum(_, _)
\* the durations of the entries of one kind, summed
StageSum(stages, kind) ==
    IF stages = <<>> THEN 0
    ELSE (IF Head(stages).stage = kind THEN Head(stages).duration ELSE 0)
         + StageSum(Tail(stages), kind)

\* a mutation: the branch for 'deep' is missing from the loop
Breakdown_no_deep(stages) ==
    [awake |-> StageSum(stages, "awake"), light |-> StageSum(stages, "light"),
     deep |-> 0]

\* the loop over the stage list: entries of another kind are skipped
Breakdown(stages) ==
    [awake |-> StageSum(stages, "awake"), light |-> StageSum(stages, "light"),
     deep |-> StageSum(stages, "deep")]

\* the breakdown of session['stages']
SessionBreakdown(session) ==
    LET stages == GetItem(session, "stages")
    IN  IF stages.exc # "none" THEN stages
        ELSE Return(Breakdown(The(stages.val)))

\* len(session['timeseries']['tnt'])
TntCount(session) ==
    LET xs == Series(session, "tnt")
    IN  IF xs.exc # "none" THEN xs ELSE Return(Len(The(xs.val)))

\* strptime(ts) + (local - UTC): ts is in seconds, offset is the difference
\* between local time and UTC at the time of the call
LocalDate(ts, offset) == ts + offset

current_session_date(self, offset) ==
    LET session == CurrentSession(self.intervals)
    IN  IF session.exc # "none" \/ session.val = None THEN session
        ELSE LET ts == GetItem(The(session.val), "ts")
             IN  IF ts.exc # "none" THEN CaughtKeyError(ts)
                 ELSE Return(LocalDate(The(ts.val), offset))

\* a mutation: the first entry of the stage list instead of the last
current_sleep_stage_first(self) ==
    LET session == CurrentSession(self.intervals)
    IN  IF session.exc # "none" \/ session.val = None THEN session
        ELSE LET stages == GetItem(The(session.val), "stages")
             IN  IF stages.exc # "none" THEN CaughtKeyError(stages)
                 ELSE LET x == ListItem(The(stages.val), 0)
                      IN  IF x.exc # "none" THEN x
                          ELSE CaughtKeyError(GetItem(The(x.val), "stage"))

current_sleep_stage(self) ==
    LET session == CurrentSession(self.intervals)
    IN  IF session.exc # "none" \/ session.val = None THEN session
        ELSE CaughtKeyError(LastStage(The(session.val)))

current_sleep_score(self) ==
    LET session == CurrentSession(self.intervals)
    IN  IF session.exc # "none" \/ session.val = None THEN session
        ELSE CaughtKeyError(GetItem(The(session.val), "score"))

current_sleep_breakdown(self) ==
    LET session == CurrentSession(self.intervals)
    IN  IF session.exc # "none" \/ session.val = None THEN session
        ELSE CaughtKeyError(SessionBreakdown(The(session.val)))

current_bed_temp(self) ==
    LET session == CurrentSession(self.intervals)
    IN  IF session.exc # "none" \/ session.val = None THEN session
        ELSE CaughtKeyError(LastSample(The(session.val), "tempBedC"))

current_room_temp(self) ==
    LET session == CurrentSession(self.intervals)
    IN  IF session.exc # "none" \/ session.val = None THEN session
        ELSE CaughtKeyError(LastSample(The(session.val), "tempRoomC"))

current_tnt(self) ==
    LET session == CurrentSession(self.intervals)
    IN  IF session.exc # "none" \/ session.val = None THEN session
        ELSE CaughtKeyError(TntCount(The(session.val)))

current_resp_rate(self) ==
    LET session == CurrentSession(self.intervals)
    IN  IF session.exc # "none" \/ session.val = None THEN session
        ELSE CaughtKeyError(LastSample(The(session.val), "respiratoryRate"))

current_heart_rate(self) ==
    LET session == CurrentSession(self.intervals)
    IN  IF session.exc # "none" \/ session.val = None THEN session
        ELSE CaughtKeyError(LastSample(The(session.val), "heartRate"))

\* the dict is built entry by entry; the first property that raises ends it
current_values(self, offset) ==
    LET date == current_session_date(self, offset)
        score == current_sleep_score(self)
        stage == current_sleep_stage(self)
        breakdown == current_sleep_breakdown(self)
        tnt == current_tnt(self)
        bed_temp == current_bed_temp(self)
        room_temp == current_room_temp(self)
        resp_rate == current_resp_rate(self)
        heart_rate == current_heart_rate(self)
    IN  IF date.exc # "none" THEN Raise(date.exc)
        ELSE IF score.exc # "none" THEN Raise(score.exc)
        ELSE IF stage.exc # "none" THEN Raise(stage.exc)
        ELSE IF breakdown.exc # "none" THEN Raise(breakdown.exc)
        ELSE IF tnt.exc # "none" THEN Raise(tnt.exc)
        ELSE IF bed_temp.exc # "none" THEN Raise(bed_temp.exc)
        ELSE IF room_temp.exc # "none" THEN Raise(room_temp.exc)
        ELSE IF resp_rate.exc # "none" THEN Raise(resp_rate.exc)
        ELSE IF heart_rate.exc # "none" THEN Raise(heart_rate.exc)
        ELSE Return([date |-> date.val, score |-> score.val, stage |-> stage.val,
                     breakdown |-> breakdown.val, tnt |-> tnt.val,
                     bed_temp |-> bed_temp.val, room_temp |-> room_temp.val,
                     resp_rate |-> resp_rate.val,
                     heart_rate |-> heart_rate.val])

\* a mutation: the handler also catches the IndexError of self.intervals[1]
\* (except (KeyError, IndexError)) and reads self.intervals[0] instead
LastPlan_catches_index(intervals) ==
    IF intervals = None THEN [exc |-> "TypeError", try |-> None, handler |-> None]
    ELSE LET first == ListItem(The(intervals), 0)
         IN  IF first.exc # "none"
             THEN [exc |-> first.exc, try |-> None, handler |-> None]
             ELSE LET incomplete == GetItem(The(first.val), "incomplete")
                  IN  IF incomplete.exc = "KeyError"
                      THEN [exc |-> "none", try |-> None, handler |-> first.val]
                      ELSE IF incomplete.val # Some(TRUE)
                           THEN [exc |-> "UnboundLocalError", try |-> None,
                                 handler |-> None]
                      ELSE LET second == ListItem(The(intervals), 1)
                           IN  IF second.exc # "none"
                               THEN [exc |-> "none", try |-> None,
                                     handler |-> first.val]
                               ELSE [exc |-> "none", try |-> second.val,
                                     handler |-> first.val]

\* The opening of every last_* property:
\*     try:
\*         incomplete = self.intervals[0]['incomplete']
\*         if incomplete is True:
\*             x = <read self.intervals[1]>
\*     except KeyError:
\*         x = <read self.intervals[0]>
\* The outcome is an exception that the handler does not catch (TypeError on
\* None, IndexError on a missing index; UnboundLocalError, raised where x is
\* first used, when the flag is present and not True), or the session the try
\* block reads (if any) and the session the handler reads on a KeyError.
LastPlan(intervals) ==
    IF intervals = None THEN [exc |-> "TypeError", try |-> None, handler |-> None]
    ELSE LET first == ListItem(The(intervals), 0)
         IN  IF first.exc # "none"
             THEN [exc |-> first.exc, try |-> None, handler |-> None]
             ELSE LET incomplete == GetItem(The(first.val), "incomplete")
                  IN  IF incomplete.exc = "KeyError"
                      THEN [exc |-> "none", try |-> None, handler |-> first.val]
                      ELSE IF incomplete.val # Some(TRUE)
                           THEN [exc |-> "UnboundLocalError", try |-> None,
                                 handler |-> None]
                      ELSE LET second == ListItem(The(intervals), 1)
                           IN  IF second.exc # "none"
                               THEN [exc |-> second.exc, try |-> None,
                                     handler |-> None]
                               ELSE [exc |-> "none", try |-> second.val,
                                     handler |-> first.val]

\* session[key] read in the try block, read again from the handler's session
\* after a KeyError
LastItem(intervals, key) ==
    LET plan == LastPlan(intervals)
        tried == IF plan.try = None THEN Raise("KeyError")
                 ELSE GetItem(The(plan.try), key)
    IN  IF plan.exc # "none" THEN Raise(plan.exc)
        ELSE IF tried.exc = "KeyError" THEN GetItem(The(plan.handler), key)
        ELSE tried

\* session['timeseries'][name], likewise
LastSeries(intervals, name) ==
    LET plan == LastPlan(intervals)
        tried == IF plan.try = None THEN Raise("KeyError")
                 ELSE Series(The(plan.try), name)
    IN  IF plan.exc # "none" THEN Raise(plan.exc)
        ELSE IF tried.exc = "KeyError" THEN Series(The(plan.handler), name)
        ELSE tried

RECURSIVE SampleSum(_)
\* tmp += temp[1] over the (timestamp, value) pairs
SampleSum(xs) == IF xs = <<>> THEN 0 ELSE Head(xs)[2] + SampleSum(Tail(xs))

RECURSIVE GCD(_, _)
GCD(a, b) == IF b = 0 THEN a ELSE GCD(b, a % b)

\* a mutation: an empty series is guarded and averages to zero
Mean_zero_on_empty(xs) ==
    IF Len(xs) = 0 THEN Return([num |-> 0, den |-> 1])
    ELSE LET g == GCD(SampleSum(xs), Len(xs))
         IN  Return([num |-> SampleSum(xs) \div g, den |-> Len(xs) \div g])

\* tmp / num: the quotient as a fraction in lowest terms; ZeroDivisionError
\* on an empty series
Mean(xs) ==
    IF Len(xs) = 0 THEN Raise("ZeroDivisionError")
    ELSE LET g == GCD(SampleSum(xs), Len(xs))
         IN  Return([num |-> SampleSum(xs) \div g, den |-> Len(xs) \div g])

SeriesMean(intervals, name) ==
    LET xs == LastSeries(intervals, name)
    IN  IF xs.exc # "none" THEN xs ELSE Mean(The(xs.val))

last_session_date(self, offset) ==
    LET ts == LastItem(self.intervals, "ts")
    IN  IF ts.exc # "none" THEN ts ELSE Return(LocalDate(The(ts.val), offset))

last_sleep_score(self) == LastItem(self.intervals, "score")

last_sleep_breakdown(self) ==
    LET stages == LastItem(self.intervals, "stages")
    IN  IF stages.exc # "none" THEN stages
        ELSE Return(Breakdown(The(stages.val)))

last_bed_temp(self) == SeriesMean(self.intervals, "tempBedC")

last_room_temp(self) == SeriesMean(self.intervals, "tempRoomC")

\* len(...) is applied inside the try block and inside the handler
last_tnt(self) ==
    LET xs == LastSeries(self.intervals, "tnt")
    IN  IF xs.exc # "none" THEN xs ELSE Return(Len(The(xs.val)))

last_resp_rate(self) == SeriesMean(self.intervals, "respiratoryRate")

last_heart_rate(self) == SeriesMean(self.intervals, "heartRate")

\* the dict is built entry by entry; the first property that raises ends it
last_values(self, offset) ==
    LET date == last_session_date(self, offset)
        score == last_sleep_score(self)
        breakdown == last_sleep_breakdown(self)
        tnt == last_tnt(self)
        bed_temp == last_bed_temp(self)
        room_temp == last_room_temp(self)
        resp_rate == last_resp_rate(self)
        heart_rate == last_heart_rate(self)
    IN  IF date.exc # "none" THEN Raise(date.exc)
        ELSE IF score.exc # "none" THEN Raise(score.exc)
        ELSE IF breakdown.exc # "none" THEN Raise(breakdown.exc)
        ELSE IF tnt.exc # "none" THEN Raise(tnt.exc)
        ELSE IF bed_temp.exc # "none" THEN Raise(bed_temp.exc)
        ELSE IF room_temp.exc # "none" THEN Raise(room_temp.exc)
        ELSE IF resp_rate.exc # "none" THEN Raise(resp_rate.exc)
        ELSE IF heart_rate.exc # "none" THEN Raise(heart_rate.exc)
        ELSE Return([date |-> date.val, score |-> score.val,
                     breakdown |-> breakdown.val, tnt |-> tnt.val,
                     bed_temp |-> bed_temp.val, room_temp |-> room_temp.val,
                     resp_rate |-> resp_rate.val,
                     heart_rate |-> heart_rate.val])

\* a mutation: the sessions of the response are put in front of the list
update_intervals_data_extends(self, resp) ==
    IF resp = None THEN self
    ELSE [self EXCEPT !.intervals =
              Some(The(resp).intervals
                       \o (IF self.intervals = None THEN <<>>
                           ELSE The(self.intervals)))]

\* update_intervals_data: the response of the intervals request is None on a
\* failure, and self.intervals is then left as it was
update_intervals_data(self, resp) ==
    IF resp = None THEN self
    ELSE [self EXCEPT !.intervals = Some(The(resp).intervals)]

\* a mutation: update_user also calls self.dynamic_presence()
update_user_evaluates(self, list, resp) ==
    LET level == heating_level(self, list)
        p == dynamic_presence(self, list)
    IN  IF level.exc # "none" THEN [exc |-> level.exc, self |-> self]
        ELSE [exc |-> p.exc,
              self |-> update_intervals_data(
                           [self EXCEPT !.past_heating_level = level.val,
                                        !.presence = p.presence], resp)]

\* update_user: self.past_heating_level = self.heating_level, then
\* update_intervals_data; an accessor that raises ends it before the request
update_user(self, list, resp) ==
    LET level == heating_level(self, list)
    IN  IF level.exc # "none" THEN [exc |-> level.exc, self |-> self]
        ELSE [exc |-> "none",
              self |-> update_intervals_data(
                           [self EXCEPT !.past_heating_level = level.val], resp)]

-----------------------------------------------------------------------------
(* EightSleep: requests, start and stop, the registration of occupants *)

\* api_request: NotAuthenticatedError without a token when one is to be sent,
\* AssertionError without a session, RequestError when the request fails
\* (answered is FALSE); "none" when the response is returned
api_request(session, tok, include_token, answered) ==
    IF include_token /\ tok = None THEN "NotAuthenticatedError"
    ELSE IF session = "None" THEN "AssertionError"
    ELSE IF ~answered THEN "RequestError"
    ELSE "none"

\* One turn of the loop of assign_users for `side` and the user id the device
\* reports for it (None when it reports none): a new EightUser is constructed,
\* stored in self.users, and its profile is fetched (profiled is FALSE when
\* that request fails).  acc is [exc, users, order, assigned].
AssignSide(acc, list, side, user_id, profiled) ==
    IF acc.exc # "none" \/ user_id = None \/ The(user_id) \in DOMAIN acc.users
    THEN acc
    ELSE LET obj == EightUser(list, The(user_id), side)
         IN  IF obj.exc # "none" THEN [acc EXCEPT !.exc = obj.exc]
             ELSE [exc |-> IF profiled THEN "none" ELSE "RequestError",
                   users |-> Put(acc.users, The(user_id), The(obj.val)),
                   order |-> Append(acc.order, The(user_id)),
                   assigned |-> acc.assigned \cup user_id]

\* assign_users: resp is [answered, leftUserId, rightUserId, profiled]
assign_users(us, ord, asg, list, ids, session, tok, resp) ==
    LET req == api_request(session, tok, TRUE, resp.answered)
        start == [exc |-> "none", users |-> us, order |-> ord, assigned |-> asg]
    IN  IF ids = <<>> THEN [start EXCEPT !.exc = "IndexError"]
        ELSE IF req # "none" THEN [start EXCEPT !.exc = req]
        ELSE AssignSide(
                 AssignSide(start, list, "left", resp.leftUserId, resp.profiled),
                 list, "right", resp.rightUserId, resp.profiled)

RECURSIVE fetch_user_id(_, _, _)
\* fetch_user_id(side): the first user id, in the order of the dict, whose
\* occupant has that side; None when there is none
fetch_user_id(us, order, side) ==
    IF order = <<>> THEN None
    ELSE IF us[Head(order)].side = side THEN Some(Head(order))
    ELSE fetch_user_id(us, Tail(order), side)

-----------------------------------------------------------------------------
(* EightSleep.update_device_data, in the three stretches that its awaits
   delimit.  A coroutine runs without interruption from one await to the
   next; between two stretches of one coroutine the others may run. *)

\* update_device_data up to its first request: device_id is
\* self._device_ids[0]; `assert self._token_expiration`; when the token is
\* due for renewal (due, read off the clock) fetch_token is awaited, else the
\* device request.  api_request raises before sending without a token or a
\* session.  `at` is the await the coroutine is suspended in, "idle" when it
\* has raised.
update_device_data_call(ids, expiration, session, tok, due) ==
    LET req == api_request(session, tok, ~due, TRUE)
    IN  IF ids = <<>> THEN [exc |-> "IndexError", at |-> "idle"]
        ELSE IF expiration = None THEN [exc |-> "AssertionError", at |-> "idle"]
        ELSE IF req # "none" THEN [exc |-> req, at |-> "idle"]
        ELSE [exc |-> "none", at |-> IF due THEN "login" ELSE "get"]

\* from the answer to the login request to the device request: fetch_token
\* stores the token and its expiration date; resp is [answered, token]
update_device_data_login(session, tok, expiration, resp) ==
    LET req == api_request(session, resp.token, TRUE, TRUE)
    IN  IF ~resp.answered
        THEN [exc |-> "RequestError", at |-> "idle", token |-> tok,
              expiration |-> expiration]
        ELSE [exc |-> req, at |-> IF req = "none" THEN "get" ELSE "idle",
              token |-> resp.token, expiration |-> Some("expirationDate")]

RECURSIVE EvaluateAll(_, _, _, _)
\* for obj in self.users.values(): obj.dynamic_presence()
\* in the order of the dict; the first call that raises ends the loop.
\* evaluated lists the occupants whose call returned.
EvaluateAll(us, order, list, evaluated) ==
    IF order = <<>>
    THEN [exc |-> "none", users |-> us, evaluated |-> evaluated]
    ELSE LET u == Head(order)
             res == dynamic_presence(us[u], list)
             us1 == [us EXCEPT ![u].presence = res.presence]
         IN  IF res.exc # "none"
             THEN [exc |-> res.exc, users |-> us1, evaluated |-> evaluated]
             ELSE EvaluateAll(us1, Tail(order), list, Append(evaluated, u))

\* a mutation: a failed request is logged and the cycle returns
update_device_data_result_suppresses(list, us, order, resp) ==
    IF ~resp.answered
    THEN [exc |-> "none", list |-> list, users |-> us, evaluated |-> <<>>]
    ELSE LET new == handle_device_json(list, The(resp.result))
             res == EvaluateAll(us, order, new, <<>>)
         IN  [exc |-> res.exc, list |-> new, users |-> res.users,
              evaluated |-> res.evaluated]

\* a mutation: presence is evaluated on the fields read before the push
update_device_data_result_stale(list, us, order, resp) ==
    IF ~resp.answered
    THEN [exc |-> "RequestError", list |-> list, users |-> us,
          evaluated |-> <<>>]
    ELSE LET new == handle_device_json(list, The(resp.result))
             res == EvaluateAll(us, order, list, <<>>)
         IN  [exc |-> res.exc, list |-> new, users |-> res.users,
              evaluated |-> res.evaluated]

\* from the answer to the device request to the end: a failed request raises
\* RequestError; else the result is pushed and presence is evaluated for
\* every occupant.  resp is [answered, result].
update_device_data_result(list, us, order, resp) ==
    IF ~resp.answered
    THEN [exc |-> "RequestError", list |-> list, users |-> us,
          evaluated |-> <<>>]
    ELSE LET new == handle_device_json(list, The(resp.result))
             res == EvaluateAll(us, order, new, <<>>)
         IN  [exc |-> res.exc, list |-> new, users |-> res.users,
              evaluated |-> res.evaluated]

-----------------------------------------------------------------------------
(* The calls, as actions *)

Accessors ==
    {"heating_level", "target_heating_level", "now_heating",
     "heating_remaining", "heating_values"}

Accessor(name, self, list) ==
    CASE name = "heating_level" -> heating_level(self, list)
      [] name = "target_heating_level" -> target_heating_level(self, list)
      [] name = "now_heating" -> now_heating(self, list)
      [] name = "heating_remaining" -> heating_remaining(self, list)
      [] name = "heating_values" -> heating_values(self, list)

\* the update_device_data coroutines that may be in flight at once; each is
\* "idle" (not running), or suspended in the request of fetch_token ("login")
\* or in its own request ("get")
CycleIds == {"c1", "c2"}

\* EightSleep.__init__, with the caller's client_session or without one
Init ==
    /\ device_json_list = <<>>
    /\ users = <<>>
    /\ api_session \in {"None", "external"}
    /\ internal_session = FALSE
    /\ token = None
    /\ token_expiration = None
    /\ device_ids = <<>>
    /\ user_order = <<>>
    /\ cycles = [c \in CycleIds |-> "idle"]
    /\ assigned = {}
    /\ pushed = <<>>
    /\ ret = Call("__init__", "-", None, ReturnNone)

\* EightSleep.handle_device_json(data)
HandleDeviceJson(data) ==
    /\ device_json_list' = handle_device_json(device_json_list, data)
    /\ pushed' = Append(pushed, data)
    /\ ret' = Call("handle_device_json", "-", None, ReturnNone)
    /\ UNCHANGED <<users, api_session, internal_session, token, device_ids,
                   assigned, token_expiration, user_order, cycles>>

\* a read of EightSleep.device_data
ReadDeviceData ==
    /\ ret' = Call("device_data", "-", None, device_data(device_json_list))
    /\ UNCHANGED <<device_json_list, users, api_session, internal_session,
                   token, device_ids, assigned, pushed, token_expiration,
                   user_order, cycles>>

\* a mutation: a read of an accessor stores the level it sees in
\* self.past_heating_level
ReadAccessor_tracks(u, name) ==
    /\ u \in DOMAIN users
    /\ users' = [users EXCEPT ![u].past_heating_level =
                     heating_level(users[u], device_json_list).val]
    /\ ret' = Call(name, u, None, Accessor(name, users[u], device_json_list))
    /\ UNCHANGED <<device_json_list, api_session, internal_session, token,
                   device_ids, assigned, pushed, token_expiration, user_order,
                   cycles>>

\* a read of one of the per-side accessors of occupant u
ReadAccessor(u, name) ==
    /\ u \in DOMAIN users
    /\ ret' = Call(name, u, None, Accessor(name, users[u], device_json_list))
    /\ UNCHANGED <<device_json_list, users, api_session, internal_session,
                   token, device_ids, assigned, pushed, token_expiration,
                   user_order, cycles>>

\* EightUser.dynamic_presence() on occupant u; arg records the prior presence
DynamicPresence(u) ==
    /\ u \in DOMAIN users
    /\ LET res == dynamic_presence(users[u], device_json_list)
       IN  /\ users' = [users EXCEPT ![u].presence = res.presence]
           /\ ret' = Call("dynamic_presence", u, Some(users[u].presence),
                          [exc |-> res.exc, val |-> Some(res.presence)])
    /\ UNCHANGED <<device_json_list, api_session, internal_session, token,
                   device_ids, assigned, pushed, token_expiration,
                   user_order, cycles>>

\* a read of one property of the current view of occupant u
CurrentFields ==
    {"current_session_date", "current_sleep_score", "current_sleep_stage",
     "current_sleep_breakdown", "current_tnt", "current_bed_temp",
     "current_room_temp", "current_resp_rate", "current_heart_rate"}

CurrentField(name, self, offset) ==
    CASE name = "current_session_date" -> current_session_date(self, offset)
      [] name = "current_sleep_score" -> current_sleep_score(self)
      [] name = "current_sleep_stage" -> current_sleep_stage(self)
      [] name = "current_sleep_breakdown" -> current_sleep_breakdown(self)
      [] name = "current_tnt" -> current_tnt(self)
      [] name = "current_bed_temp" -> current_bed_temp(self)
      [] name = "current_room_temp" -> current_room_temp(self)
      [] name = "current_resp_rate" -> current_resp_rate(self)
      [] name = "current_heart_rate" -> current_heart_rate(self)
      [] name = "current_values" -> current_values(self, offset)

LastFields ==
    {"last_session_date", "last_sleep_score", "last_sleep_breakdown",
     "last_tnt", "last_bed_temp", "last_room_temp", "last_resp_rate",
     "last_heart_rate"}

LastField(name, self, offset) ==
    CASE name = "last_session_date" -> last_session_date(self, offset)
      [] name = "last_sleep_score" -> last_sleep_score(self)
      [] name = "last_sleep_breakdown" -> last_sleep_breakdown(self)
      [] name = "last_tnt" -> last_tnt(self)
      [] name = "last_bed_temp" -> last_bed_temp(self)
      [] name = "last_room_temp" -> last_room_temp(self)
      [] name = "last_resp_rate" -> last_resp_rate(self)
      [] name = "last_heart_rate" -> last_heart_rate(self)
      [] name = "last_values" -> last_values(self, offset)

\* a read of a property of the current view, or of current_values, of
\* occupant u, at a time when local time is offset seconds ahead of UTC
ReadCurrent(u, name, offset) ==
    /\ u \in DOMAIN users
    /\ ret' = Call(name, u, Some(offset), CurrentField(name, users[u], offset))
    /\ UNCHANGED <<device_json_list, users, api_session, internal_session,
                   token, device_ids, assigned, pushed, token_expiration,
                   user_order, cycles>>

\* a read of a property of the last view, or of last_values, of occupant u
ReadLast(u, name, offset) ==
    /\ u \in DOMAIN users
    /\ ret' = Call(name, u, Some(offset), LastField(name, users[u], offset))
    /\ UNCHANGED <<device_json_list, users, api_session, internal_session,
                   token, device_ids, assigned, pushed, token_expiration,
                   user_order, cycles>>

\* EightUser.update_intervals_data() on occupant u, the request answered resp
UpdateIntervalsData(u, resp) ==
    /\ u \in DOMAIN users
    /\ users' = [users EXCEPT ![u] = update_intervals_data(users[u], resp)]
    /\ ret' = Call("update_intervals_data", u, None, ReturnNone)
    /\ UNCHANGED <<device_json_list, api_session, internal_session, token,
                   device_ids, assigned, pushed, token_expiration,
                   user_order, cycles>>

\* EightUser.update_user() on occupant u, the request answered resp
UpdateUser(u, resp) ==
    /\ u \in DOMAIN users
    /\ LET res == update_user(users[u], device_json_list, resp)
       IN  /\ users' = [users EXCEPT ![u] = res.self]
           /\ ret' = Call("update_user", u, None, Raise(res.exc))
    /\ UNCHANGED <<device_json_list, api_session, internal_session, token,
                   device_ids, assigned, pushed, token_expiration,
                   user_order, cycles>>

\* EightSleep.fetch_token(): resp is [answered, token]
FetchToken(resp) ==
    /\ LET req == api_request(api_session, token, FALSE, resp.answered)
       IN  /\ token' = IF req = "none" THEN resp.token ELSE token
           /\ token_expiration' = IF req = "none" THEN Some("expirationDate")
                                   ELSE token_expiration
           /\ ret' = Call("fetch_token", "-", None, Raise(req))
    /\ UNCHANGED <<device_json_list, users, api_session, internal_session,
                   device_ids, assigned, pushed, user_order, cycles>>

\* EightSleep.fetch_device_list(): resp is [answered, devices]
FetchDeviceList(resp) ==
    /\ LET req == api_request(api_session, token, TRUE, resp.answered)
       IN  /\ device_ids' = IF req = "none" THEN resp.devices ELSE device_ids
           /\ ret' = Call("fetch_device_list", "-", None, Raise(req))
    /\ UNCHANGED <<device_json_list, users, api_session, internal_session,
                   token, assigned, pushed, token_expiration, user_order,
                   cycles>>

\* EightSleep.assign_users()
AssignUsers(resp) ==
    /\ LET res == assign_users(users, user_order, assigned, device_json_list,
                               device_ids, api_session, token, resp)
       IN  /\ users' = res.users
           /\ user_order' = res.order
           /\ assigned' = res.assigned
           /\ ret' = Call("assign_users", "-", None, Raise(res.exc))
    /\ UNCHANGED <<device_json_list, api_session, internal_session, token,
                   device_ids, pushed, token_expiration, cycles>>

\* EightSleep.start(): a session is created when there is none; then
\* fetch_token, and with a token fetch_device_list and assign_users.  The
\* first call that raises ends it.  It returns True, or False without a token.
\* arg records the answer of the device to assign_users when start got there.
Start(tokenResp, listResp, usersResp) ==
    LET session == IF api_session = "None" THEN "internal" ELSE api_session
        internal == IF api_session = "None" THEN TRUE ELSE internal_session
        req1 == api_request(session, token, FALSE, tokenResp.answered)
        tok == IF req1 = "none" THEN tokenResp.token ELSE token
        req2 == api_request(session, tok, TRUE, listResp.answered)
        ids == IF req1 = "none" /\ tok # None /\ req2 = "none"
               THEN listResp.devices ELSE device_ids
        res == assign_users(users, user_order, assigned, device_json_list,
                            ids, session, tok, usersResp)
        reached == req1 = "none" /\ tok # None /\ req2 = "none"
    IN  /\ api_session' = session
        /\ internal_session' = internal
        /\ token' = tok
        /\ token_expiration' = IF req1 = "none" THEN Some("expirationDate")
                                ELSE token_expiration
        /\ device_ids' = ids
        /\ users' = IF reached THEN res.users ELSE users
        /\ user_order' = IF reached THEN res.order ELSE user_order
        /\ assigned' = IF reached THEN res.assigned ELSE assigned
        /\ ret' = Call("start", "-",
                       IF reached THEN Some(usersResp) ELSE None,
                       IF req1 # "none" THEN Raise(req1)
                       ELSE IF tok = None THEN Return(FALSE)
                       ELSE IF req2 # "none" THEN Raise(req2)
                       ELSE IF res.exc # "none" THEN Raise(res.exc)
                       ELSE Return(TRUE))
        /\ UNCHANGED <<device_json_list, pushed, cycles>>

\* EightSleep.update_device_data() is called as coroutine c: it runs up to
\* its first request
UpdateDeviceData(c, due) ==
    /\ cycles[c] = "idle"
    /\ LET res == update_device_data_call(device_ids, token_expiration,
                                          api_session, token, due)
       IN  /\ cycles' = [cycles EXCEPT ![c] = res.at]
           /\ ret' = IF res.exc = "none"
                     THEN Call("await", c, Some(res.at), ReturnNone)
                     ELSE Call("update_device_data", c,
                               Some([answered |-> FALSE, at |-> "call",
                                     prior |-> users]),
                               Raise(res.exc))
    /\ UNCHANGED <<device_json_list, users, api_session, internal_session,
                   token, device_ids, assigned, pushed, token_expiration,
                   user_order>>

\* the login request of coroutine c is answered
UpdateDeviceDataLogin(c, resp) ==
    /\ cycles[c] = "login"
    /\ LET res == update_device_data_login(api_session, token,
                                           token_expiration, resp)
       IN  /\ cycles' = [cycles EXCEPT ![c] = res.at]
           /\ token' = res.token
           /\ token_expiration' = res.expiration
           /\ ret' = IF res.exc = "none"
                     THEN Call("await", c, Some(res.at), ReturnNone)
                     ELSE Call("update_device_data", c,
                               Some([answered |-> resp.answered,
                                     at |-> "login", prior |-> users]),
                               Raise(res.exc))
    /\ UNCHANGED <<device_json_list, users, api_session, internal_session,
                   device_ids, assigned, pushed, user_order>>

\* the device request of coroutine c is answered; val is the list of the
\* occupants whose presence was evaluated
UpdateDeviceDataResult(c, resp) ==
    /\ cycles[c] = "get"
    /\ LET res == update_device_data_result(device_json_list, users,
                                            user_order, resp)
       IN  /\ cycles' = [cycles EXCEPT ![c] = "idle"]
           /\ device_json_list' = res.list
           /\ pushed' = IF resp.answered THEN Append(pushed, The(resp.result))
                        ELSE pushed
           /\ users' = res.users
           /\ ret' = Call("update_device_data", c,
                          Some([answered |-> resp.answered, at |-> "get",
                                prior |-> users]),
                          [exc |-> res.exc, val |-> Some(res.evaluated)])
    /\ UNCHANGED <<api_session, internal_session, token, device_ids, assigned,
                   token_expiration, user_order>>

\* a mutation: stop closes and drops whatever session there is
Stop_closes_any ==
    /\ api_session' = "None"
    /\ ret' = Call("stop", "-",
                   IF api_session # "None" THEN Some("close") ELSE None,
                   ReturnNone)
    /\ UNCHANGED <<device_json_list, users, internal_session, token,
                   device_ids, assigned, pushed, token_expiration,
                   user_order, cycles>>

\* EightSleep.stop(): the session is closed and dropped when it is one that
\* start created; nothing is done otherwise
Stop ==
    /\ api_session' = IF internal_session /\ api_session # "None" THEN "None"
                      ELSE api_session
    /\ ret' = Call("stop", "-",
                   IF internal_session /\ api_session # "None"
                   THEN Some("close") ELSE None,
                   ReturnNone)
    /\ UNCHANGED <<device_json_list, users, internal_session, token,
                   device_ids, assigned, pushed, token_expiration,
                   user_order, cycles>>

-----------------------------------------------------------------------------
(* Inputs *)

UserIds == {"u1", "u2"}

Sides == {"Left", "Right", "left", "right"}

\* heating levels and targets on both sides of the thresholds 15, 25 and of
\* a heat_delta of 8
Levels == {12, 15, 16, 24, 25, 30}

Targets == {8, 17, 18}

\* the duration left follows the heating flag: an hour while heating
SideVals ==
    {[level |-> l, target |-> t, heating |-> h,
      duration |-> IF h THEN 3600 ELSE 0] :
        l \in Levels, t \in Targets, h \in BOOLEAN}

Snapshot(l, r) ==
    [leftHeatingLevel |-> l.level, leftTargetHeatingLevel |-> l.target,
     leftNowHeating |-> l.heating, leftHeatingDuration |-> l.duration,
     rightHeatingLevel |-> r.level, rightTargetHeatingLevel |-> r.target,
     rightNowHeating |-> r.heating, rightHeatingDuration |-> r.duration]

Snapshots == {Snapshot(l, r) : l \in SideVals, r \in SideVals}

\* two snapshots that differ in every field and between their sides
SnapA ==
    Snapshot([level |-> 25, target |-> 17, heating |-> TRUE, duration |-> 3600],
             [level |-> 15, target |-> 8, heating |-> FALSE, duration |-> 0])

SnapB ==
    Snapshot([level |-> 16, target |-> 18, heating |-> FALSE, duration |-> 0],
             [level |-> 24, target |-> 16, heating |-> TRUE, duration |-> 3600])

\* the difference between local time and UTC, in seconds
Offsets == {0, 7200}

StagesLong ==
    <<[stage |-> "awake", duration |-> 300],
      [stage |-> "light", duration |-> 1800],
      [stage |-> "deep", duration |-> 1200],
      [stage |-> "light", duration |-> 600]>>

StagesShort ==
    <<[stage |-> "light", duration |-> 900],
      [stage |-> "awake", duration |-> 60]>>

\* timeseries of (timestamp, value) pairs; no two series end on the same
\* value or have the same mean
SeriesA ==
    [tempBedC |-> <<<<1, 20>>, <<2, 22>>>>,
     tempRoomC |-> <<<<1, 18>>, <<2, 19>>>>,
     tnt |-> <<<<1, 1>>, <<2, 1>>, <<3, 1>>>>,
     respiratoryRate |-> <<<<1, 14>>, <<2, 16>>, <<3, 13>>>>,
     heartRate |-> <<<<1, 60>>, <<2, 55>>>>]

SeriesB ==
    [tempBedC |-> <<<<5, 30>>>>,
     tempRoomC |-> <<<<5, 21>>, <<6, 17>>>>,
     tnt |-> <<<<5, 1>>>>,
     respiratoryRate |-> <<<<5, 12>>>>,
     heartRate |-> <<<<5, 70>>, <<6, 72>>, <<7, 71>>>>]

SeriesEmpty ==
    [tempBedC |-> <<>>, tempRoomC |-> <<>>, tnt |-> <<>>,
     respiratoryRate |-> <<>>, heartRate |-> <<>>]

SeriesNoHeart ==
    [tempBedC |-> <<<<8, 25>>>>, tempRoomC |-> <<<<8, 16>>>>,
     tnt |-> <<>>, respiratoryRate |-> <<<<8, 15>>>>]

\* session records as the intervals request returns them, without the
\* 'incomplete' key: full ones, one with empty lists, one with keys missing
SessionBodies ==
    {[ts |-> 100, score |-> 80, stages |-> StagesLong, timeseries |-> SeriesA],
     [ts |-> 200, score |-> 65, stages |-> StagesShort, timeseries |-> SeriesB],
     [ts |-> 300, score |-> 90, stages |-> <<>>, timeseries |-> SeriesEmpty],
     [ts |-> 400, timeseries |-> SeriesNoHeart]}

WithIncomplete(session, flag) ==
    [k \in DOMAIN session \cup {"incomplete"} |->
        IF k = "incomplete" THEN flag ELSE session[k]]

Sessions ==
    SessionBodies
        \cup {WithIncomplete(s, flag) : s \in SessionBodies, flag \in BOOLEAN}

IsIncomplete(session) ==
    "incomplete" \in DOMAIN session /\ session["incomplete"] = TRUE

MaxIntervals == 2

\* intervals lists, newest first: only the first session may be incomplete
IntervalLists ==
    UNION {{l \in [1..n -> Sessions] : \A i \in 2..n : ~IsIncomplete(l[i])} :
              n \in 0..MaxIntervals}

\* what the intervals request (api_get) answers: None on a failure, else a
\* dict with the list under 'intervals'
IntervalsResponses ==
    {None} \cup {Some([intervals |-> l]) : l \in IntervalLists}

\* what the login, device list and device requests answer; a request that
\* is not answered carries nothing
TokenResponses ==
    {r \in [answered : BOOLEAN, token : {None, Some("token")}] :
        ~r.answered => r.token = None}

DeviceListResponses ==
    {r \in [answered : BOOLEAN, devices : {<<>>, <<"device">>}] :
        ~r.answered => r.devices = <<>>}

AssignResponses ==
    {r \in [answered : BOOLEAN, profiled : BOOLEAN,
            leftUserId : {None} \cup {Some(u) : u \in UserIds},
            rightUserId : {None} \cup {Some(u) : u \in UserIds}] :
        ~r.answered => (r.profiled /\ r.leftUserId = None /\ r.rightUserId = None)}

\* the three answers start can get; the answers to the requests it does not
\* reach are left out
StartResponses ==
    {r \in [token : TokenResponses, list : DeviceListResponses,
            users : AssignResponses] :
        /\ r.token.token = None => ~r.list.answered
        /\ ~r.list.answered => ~r.users.answered}

-----------------------------------------------------------------------------
(* The program: the client from its construction on *)

MaxPushes == 2

Next ==
    \/ \E data \in {SnapA, SnapB} :
          /\ Len(pushed) < MaxPushes
          /\ HandleDeviceJson(data)
    \/ \E r \in StartResponses : Start(r.token, r.list, r.users)
    \/ Stop
    \/ \E r \in TokenResponses : FetchToken(r)
    \/ \E r \in DeviceListResponses : FetchDeviceList(r)
    \/ \E r \in AssignResponses : AssignUsers(r)
    \/ \E u \in DOMAIN users, name \in Accessors : ReadAccessor(u, name)

Spec == Init /\ [][Next]_vars

-----------------------------------------------------------------------------
(* The session views as functions of the intervals list: one occupant on a
   history of one snapshot, with every intervals list (or none yet); the
   list is read, and replaced by update_intervals_data and update_user *)

InitViews ==
    /\ device_json_list = <<SnapA>>
    /\ \E intervals \in {None} \cup {Some(l) : l \in IntervalLists} :
          users = [u \in {"u1"} |->
                      [userid |-> u, side |-> "Left", intervals |-> intervals,
                       data |-> Some(SnapA), past_heating_level |-> None,
                       presence |-> FALSE]]
    /\ api_session = "external"
    /\ internal_session = FALSE
    /\ token = None
    /\ device_ids = <<>>
    /\ assigned = {}
    /\ pushed = <<SnapA>>
    /\ token_expiration = None
    /\ user_order = <<"u1">>
    /\ cycles = [c \in CycleIds |-> "idle"]
    /\ ret = Call("__init__", "-", None, ReturnNone)

\* an in-progress session ahead of a finished one
ListInProgress ==
    <<[incomplete |-> TRUE, ts |-> 200, score |-> 65, stages |-> StagesShort,
       timeseries |-> SeriesB],
      [ts |-> 100, score |-> 80, stages |-> StagesLong, timeseries |-> SeriesA]>>

NextViews ==
    \/ \E resp \in {None, Some([intervals |-> <<>>]),
                    Some([intervals |-> ListInProgress])} :
          UpdateIntervalsData("u1", resp)
    \/ \E resp \in {None, Some([intervals |-> ListInProgress])} :
          UpdateUser("u1", resp)
    \/ \E name \in CurrentFields \cup {"current_values"}, offset \in Offsets :
          ReadCurrent("u1", name, offset)
    \/ \E name \in LastFields \cup {"last_values"}, offset \in Offsets :
          ReadLast("u1", name, offset)
    \/ \E name \in Accessors : ReadAccessor("u1", name)

SpecViews == InitViews /\ [][NextViews]_vars

-----------------------------------------------------------------------------
(* The history alone: pushes of up to MaxHistoryPushes snapshots, and reads
   of its head *)

MaxHistoryPushes == 12

NextHistory ==
    \/ \E data \in {SnapA, SnapB} :
          /\ Len(pushed) < MaxHistoryPushes
          /\ HandleDeviceJson(data)
    \/ ReadDeviceData

SpecHistory == Init /\ [][NextHistory]_vars

-----------------------------------------------------------------------------
(* The accessors and presence inference as functions of an occupant and the
   history: every side, prior presence and head snapshot, and the empty
   history.  EightUser.__init__ reads device_data itself, so EightSleep
   never builds an occupant over an empty history (EightUser above raises
   IndexError); the properties are applied to that input here as the
   functions of (self, history) they are. *)

InitReducer ==
    /\ device_json_list \in {<<>>} \cup {<<d>> : d \in Snapshots}
    /\ \E side \in Sides, p \in BOOLEAN :
          users = [u \in {"u1"} |->
                      [userid |-> u, side |-> side, intervals |-> None,
                       data |-> IF device_json_list = <<>> THEN None
                                ELSE Some(device_json_list[1]),
                       past_heating_level |-> None, presence |-> p]]
    /\ api_session = "external"
    /\ internal_session = FALSE
    /\ token = None
    /\ device_ids = <<>>
    /\ assigned = {}
    /\ pushed = device_json_list
    /\ token_expiration = None
    /\ user_order = <<"u1">>
    /\ cycles = [c \in CycleIds |-> "idle"]
    /\ ret = Call("__init__", "-", None, ReturnNone)

NextReducer ==
    \/ \E u \in UserIds, name \in Accessors : ReadAccessor(u, name)
    \/ \E u \in UserIds : DynamicPresence(u)

SpecReducer == InitReducer /\ [][NextReducer]_vars

-----------------------------------------------------------------------------
(* Polling: a started client with a full history and occupants, under
   overlapping update_device_data coroutines, pushes, refreshes, reads and
   the registration of occupants *)

MaxPolls == 2

\* a snapshot on which the left side reads absent and the right side present
SnapC ==
    Snapshot([level |-> 12, target |-> 8, heating |-> FALSE, duration |-> 0],
             [level |-> 30, target |-> 18, heating |-> FALSE, duration |-> 0])

FullHistory ==
    [i \in 1..HistoryCapacity |-> IF i % 2 = 1 THEN SnapB ELSE SnapA]

\* what the device request answers
DeviceResponses ==
    {[answered |-> FALSE, result |-> None]}
        \cup {[answered |-> TRUE, result |-> Some(d)] :
                 d \in {SnapA, SnapC}}

\* occupants a caller has constructed and tracks: none, or on 'Left' and
\* 'Right'
TrackedUsers ==
    {<<>>, <<[userid |-> "u1", side |-> "Left"]>>,
     <<[userid |-> "u1", side |-> "Left"], [userid |-> "u2", side |-> "Right"]>>}

InitPoll ==
    /\ device_json_list = FullHistory
    /\ pushed = FullHistory
    /\ \E tracked \in TrackedUsers :
          /\ user_order = [i \in DOMAIN tracked |-> tracked[i].userid]
          /\ users = [u \in {tracked[i].userid : i \in DOMAIN tracked} |->
                         LET i == CHOOSE i \in DOMAIN tracked :
                                      tracked[i].userid = u
                         IN  The(EightUser(FullHistory, u, tracked[i].side).val)]
    /\ api_session = "external"
    /\ internal_session = FALSE
    /\ token = Some("token")
    /\ token_expiration = Some("expirationDate")
    /\ device_ids = <<"device">>
    /\ assigned = {}
    /\ cycles = [c \in CycleIds |-> "idle"]
    /\ ret = Call("__init__", "-", None, ReturnNone)

InFlight == Cardinality({c \in CycleIds : cycles[c] # "idle"})

NextPoll ==
    \/ \E c \in CycleIds, due \in BOOLEAN :
          /\ Len(pushed) + InFlight < HistoryCapacity + MaxPolls
          /\ UpdateDeviceData(c, due)
    \/ \E c \in CycleIds, resp \in TokenResponses :
          UpdateDeviceDataLogin(c, resp)
    \/ \E c \in CycleIds, resp \in DeviceResponses :
          UpdateDeviceDataResult(c, resp)
    \/ /\ Len(pushed) + InFlight < HistoryCapacity + MaxPolls
       /\ HandleDeviceJson(SnapC)
    \/ \E u \in DOMAIN users : DynamicPresence(u)
    \/ \E u \in DOMAIN users : ReadAccessor(u, "heating_values")
    \/ \E u \in DOMAIN users : UpdateUser(u, Some([intervals |-> ListInProgress]))
    \/ \E r \in {a \in AssignResponses :
                    a.profiled /\ a.leftUserId \in {None, Some("u1")}
                               /\ a.rightUserId \in {None, Some("u2")}} :
          AssignUsers(r)

SpecPoll == InitPoll /\ [][NextPoll]_vars

-----------------------------------------------------------------------------
(* Readers among writers: the pushes and the replacements of the intervals
   list are the last stretches of their coroutines, after the await of the
   request; the reads are properties, which await nothing.  The reads run
   between the writes in every order. *)

InitReaders ==
    /\ device_json_list = FullHistory
    /\ pushed = FullHistory
    /\ user_order = <<"u1">>
    /\ users = [u \in {"u1"} |-> The(EightUser(FullHistory, u, "Left").val)]
    /\ api_session = "external"
    /\ internal_session = FALSE
    /\ token = Some("token")
    /\ token_expiration = Some("expirationDate")
    /\ device_ids = <<"device">>
    /\ assigned = {}
    /\ cycles = [c \in CycleIds |-> "idle"]
    /\ ret = Call("__init__", "-", None, ReturnNone)

NextReaders ==
    \/ \E data \in {SnapA, SnapC} :
          /\ Len(pushed) < HistoryCapacity + MaxPolls
          /\ HandleDeviceJson(data)
    \/ \E resp \in {None, Some([intervals |-> <<>>]),
                    Some([intervals |-> ListInProgress])} :
          UpdateIntervalsData("u1", resp)
    \/ \E name \in Accessors : ReadAccessor("u1", name)
    \/ \E name \in {"current_values"}, offset \in Offsets :
          ReadCurrent("u1", name, offset)
    \/ \E name \in {"last_values"}, offset \in Offsets :
          ReadLast("u1", name, offset)

SpecReaders == InitReaders /\ [][NextReaders]_vars

-----------------------------------------------------------------------------
(* The life of the HTTP session: a client constructed with the caller's
   session or without one, under start and stop calls in any order, each
   running to its end before the next; a snapshot may be pushed in between,
   so that start can also register occupants *)

NextLifecycle ==
    \/ \E r \in StartResponses : Start(r.token, r.list, r.users)
    \/ Stop
    \/ /\ Len(pushed) < MaxPushes
       /\ HandleDeviceJson(SnapA)

SpecLifecycle == Init /\ [][NextLifecycle]_vars

-----------------------------------------------------------------------------
(* Claims *)

\* C1: after n pushes from an empty history the history holds min(n, 10)
\* snapshots, newest first, and they are exactly the min(n, 10) snapshots
\* pushed last: element i is the i-th most recent push, so a push onto a full
\* history drops the oldest snapshot and no other.
C1_HistoryBound ==
    LET n == Len(pushed)
        m == IF n <= 10 THEN n ELSE 10
    IN  /\ Len(device_json_list) = m
        /\ \A i \in 1..m : device_json_list[i] = pushed[n + 1 - i]

\* C1's case: more than 10 pushes, a full history whose newest and oldest
\* snapshots differ
C1_Witness ==
    /\ Len(pushed) > 10
    /\ Len(device_json_list) = 10
    /\ device_json_list[1] # device_json_list[10]
    /\ pushed[1] # pushed[Len(pushed) - 9]

\* C2: a presence evaluation that read now_heating, heating_level and
\* target_heating_level from the latest snapshot leaves presence absent if
\* (not now_heating and level <= 15) or (now_heating and heat_delta < 8),
\* otherwise present if heat_delta >= 8 and level >= 25, otherwise at its
\* prior value; heat_delta is level - target when heating, level - 10 when not.
C2_Transition ==
    \A u \in DOMAIN users :
        (ret.op = "dynamic_presence" /\ ret.user = u /\ ret.exc = "none") =>
            LET d == device_json_list[1]
                left == users[u].side = "Left"
                heating == IF left THEN d.leftNowHeating ELSE d.rightNowHeating
                level == IF left THEN d.leftHeatingLevel ELSE d.rightHeatingLevel
                target == IF left THEN d.leftTargetHeatingLevel
                          ELSE d.rightTargetHeatingLevel
                heat_delta == IF heating THEN level - target ELSE level - 10
                prior == The(ret.arg)
            IN  users[u].presence =
                    IF (~heating /\ level <= 15) \/ (heating /\ heat_delta < 8)
                    THEN FALSE
                    ELSE IF heat_delta >= 8 /\ level >= 25 THEN TRUE
                    ELSE prior

\* C2's case: an absent occupant, not heating at level 30, evaluated to present
C2_Witness ==
    /\ ret.op = "dynamic_presence"
    /\ ret.exc = "none"
    /\ ret.arg = Some(FALSE)
    /\ users[ret.user].side = "Left"
    /\ users[ret.user].presence = TRUE
    /\ device_json_list[1].leftNowHeating = FALSE
    /\ device_json_list[1].leftHeatingLevel = 30

\* C3: an evaluation that follows an evaluation of the same occupant on the
\* same head snapshot leaves presence as it was, and an evaluation for which
\* neither the present-condition nor an absent-condition holds leaves presence
\* at its prior value.
C3_Sticky ==
    [][\A u \in DOMAIN users :
          (/\ ret'.op = "dynamic_presence"
           /\ ret'.user = u
           /\ ret'.exc = "none"
           /\ device_json_list' = device_json_list) =>
              LET d == device_json_list[1]
                  left == users[u].side = "Left"
                  heating == IF left THEN d.leftNowHeating ELSE d.rightNowHeating
                  level == IF left THEN d.leftHeatingLevel ELSE d.rightHeatingLevel
                  target == IF left THEN d.leftTargetHeatingLevel
                            ELSE d.rightTargetHeatingLevel
                  heat_delta == IF heating THEN level - target ELSE level - 10
                  present == heat_delta >= 8 /\ level >= 25
                  absent == \/ ~heating /\ level <= 15
                            \/ heating /\ heat_delta < 8
              IN  /\ (/\ ret.op = "dynamic_presence"
                      /\ ret.user = u
                      /\ ret.exc = "none") => users'[u].presence = users[u].presence
                  /\ (~present /\ ~absent) => users'[u].presence = users[u].presence
      ]_vars

\* C3's case: a present occupant evaluated while heating with heat_delta >= 8
\* below level 25, where no condition holds, and still present
C3_Witness ==
    /\ ret.op = "dynamic_presence"
    /\ ret.exc = "none"
    /\ ret.arg = Some(TRUE)
    /\ users[ret.user].side = "Right"
    /\ users[ret.user].presence = TRUE
    /\ device_json_list[1].rightNowHeating = TRUE
    /\ device_json_list[1].rightHeatingLevel = 24
    /\ device_json_list[1].rightTargetHeatingLevel = 8

C6_AccessorsReadOwnSide ==
    \A u \in assigned :
        (ret.op \in Accessors /\ ret.user = u /\ device_json_list # <<>>) =>
            LET d == device_json_list[1]
                left == users[u].side = "left"
                level == IF left THEN d.leftHeatingLevel ELSE d.rightHeatingLevel
                target == IF left THEN d.leftTargetHeatingLevel
                          ELSE d.rightTargetHeatingLevel
                active == IF left THEN d.leftNowHeating ELSE d.rightNowHeating
                remaining == IF left THEN d.leftHeatingDuration
                             ELSE d.rightHeatingDuration
            IN  /\ ret.exc = "none"
                /\ ret.op = "heating_level" => ret.val = Some(level)
                /\ ret.op = "target_heating_level" => ret.val = Some(target)
                /\ ret.op = "now_heating" => ret.val = Some(active)
                /\ ret.op = "heating_remaining" => ret.val = Some(remaining)
                /\ ret.op = "heating_values" =>
                       ret.val = Some([level |-> Some(level),
                                       target |-> Some(target),
                                       active |-> Some(active),
                                       remaining |-> Some(remaining)])

\* C7: the last view reads the most recently completed session, which is
\* intervals[1] if intervals[0] is incomplete and intervals[0] if its flag is
\* false or absent: a read of a last_* property for which that session exists
\* and holds the key (and, for an average, a sample) returns the value
\* computed from that session.
C7_LastReadsCompleted ==
    (ret.op \in LastFields /\ users[ret.user].intervals # None) =>
        LET l == The(users[ret.user].intervals)
            i == IF l # <<>> /\ IsIncomplete(l[1]) THEN 2 ELSE 1
            sel == l[i]
            HasSeries(name) ==
                /\ "timeseries" \in DOMAIN sel
                /\ name \in DOMAIN sel.timeseries
            NonEmpty(name) == HasSeries(name) /\ sel.timeseries[name] # <<>>
        IN  i <= Len(l) =>
              /\ (ret.op = "last_session_date" /\ "ts" \in DOMAIN sel) =>
                     (ret.exc = "none" /\ ret.val = Some(sel.ts + The(ret.arg)))
              /\ (ret.op = "last_sleep_score" /\ "score" \in DOMAIN sel) =>
                     (ret.exc = "none" /\ ret.val = Some(sel.score))
              /\ (ret.op = "last_sleep_breakdown" /\ "stages" \in DOMAIN sel) =>
                     (ret.exc = "none" /\ ret.val = Some(Breakdown(sel.stages)))
              /\ (ret.op = "last_tnt" /\ HasSeries("tnt")) =>
                     (ret.exc = "none" /\ ret.val = Some(Len(sel.timeseries.tnt)))
              /\ (ret.op = "last_bed_temp" /\ NonEmpty("tempBedC")) =>
                     (ret.exc = "none" /\ ret.val = Mean(sel.timeseries.tempBedC).val)
              /\ (ret.op = "last_room_temp" /\ NonEmpty("tempRoomC")) =>
                     (ret.exc = "none" /\ ret.val = Mean(sel.timeseries.tempRoomC).val)
              /\ (ret.op = "last_resp_rate" /\ NonEmpty("respiratoryRate")) =>
                     (/\ ret.exc = "none"
                      /\ ret.val = Mean(sel.timeseries.respiratoryRate).val)
              /\ (ret.op = "last_heart_rate" /\ NonEmpty("heartRate")) =>
                     (ret.exc = "none" /\ ret.val = Mean(sel.timeseries.heartRate).val)

\* C8 as claimed: a read of the last view whose selected index does not exist
\* (an empty list, or a single session that is incomplete) fails with
\* NoCompletedSessionError.
C8_NoCompletedSessionError ==
    (/\ ret.op \in LastFields \cup {"last_values"}
     /\ users[ret.user].intervals # None) =>
        LET l == The(users[ret.user].intervals)
        IN  (l = <<>> \/ (Len(l) = 1 /\ IsIncomplete(l[1]))) =>
                ret.exc = "NoCompletedSessionError"

\* C8, amended: such a read fails with Python's IndexError; it returns no
\* value, so the failure is distinct from a transient-absent None.
C8_IndexError ==
    (/\ ret.op \in LastFields \cup {"last_values"}
     /\ users[ret.user].intervals # None) =>
        LET l == The(users[ret.user].intervals)
        IN  (l = <<>> \/ (Len(l) = 1 /\ IsIncomplete(l[1]))) =>
                (ret.exc = "IndexError" /\ ret.val = None)

\* C8's case: last_values read over a single session that is still incomplete
C8_Witness ==
    /\ ret.op = "last_values"
    /\ ret.exc = "IndexError"
    /\ users[ret.user].intervals # None
    /\ Len(The(users[ret.user].intervals)) = 1
    /\ IsIncomplete(The(users[ret.user].intervals)[1])

\* C9: every property of the current view, and current_values as a whole, is
\* None without raising when the intervals list is empty, when intervals[0]
\* has incomplete false, or when intervals[0] has no incomplete key.
C9_CurrentAbsent ==
    (/\ ret.op \in CurrentFields \cup {"current_values"}
     /\ users[ret.user].intervals # None) =>
        LET l == The(users[ret.user].intervals)
        IN  (l = <<>> \/ ~IsIncomplete(l[1])) =>
              /\ ret.exc = "none"
              /\ ret.op \in CurrentFields => ret.val = None
              /\ ret.op = "current_values" =>
                     ret.val = Some([date |-> None, score |-> None,
                                     stage |-> None, breakdown |-> None,
                                     tnt |-> None, bed_temp |-> None,
                                     room_temp |-> None, resp_rate |-> None,
                                     heart_rate |-> None])

\* C10: while intervals[0] is incomplete the current view reads intervals[0]:
\* the stage is that of the last entry of its stage list, bed_temp, room_temp,
\* resp_rate and heart_rate are the value of the last pair of their series,
\* and tnt is the number of entries of the tnt series; current_values, when
\* it returns, holds the same values.
C10_CurrentReadsLatest ==
    (/\ ret.op \in CurrentFields \cup {"current_values"}
     /\ users[ret.user].intervals # None
     /\ The(users[ret.user].intervals) # <<>>
     /\ IsIncomplete(The(users[ret.user].intervals)[1])) =>
        LET cur == The(users[ret.user].intervals)[1]
            HasSeries(name) ==
                /\ "timeseries" \in DOMAIN cur
                /\ name \in DOMAIN cur.timeseries
            NonEmpty(name) == HasSeries(name) /\ cur.timeseries[name] # <<>>
            Latest(name) ==
                cur.timeseries[name][Len(cur.timeseries[name])][2]
            HasStage == "stages" \in DOMAIN cur /\ cur.stages # <<>>
            dict == The(ret.val)
        IN  /\ (ret.op = "current_sleep_stage" /\ HasStage) =>
                   (/\ ret.exc = "none"
                    /\ ret.val = Some(cur.stages[Len(cur.stages)].stage))
            /\ (ret.op = "current_bed_temp" /\ NonEmpty("tempBedC")) =>
                   (ret.exc = "none" /\ ret.val = Some(Latest("tempBedC")))
            /\ (ret.op = "current_room_temp" /\ NonEmpty("tempRoomC")) =>
                   (ret.exc = "none" /\ ret.val = Some(Latest("tempRoomC")))
            /\ (ret.op = "current_resp_rate" /\ NonEmpty("respiratoryRate")) =>
                   (ret.exc = "none" /\ ret.val = Some(Latest("respiratoryRate")))
            /\ (ret.op = "current_heart_rate" /\ NonEmpty("heartRate")) =>
                   (ret.exc = "none" /\ ret.val = Some(Latest("heartRate")))
            /\ (ret.op = "current_tnt" /\ HasSeries("tnt")) =>
                   (ret.exc = "none" /\ ret.val = Some(Len(cur.timeseries.tnt)))
            /\ (ret.op = "current_values" /\ ret.exc = "none") =>
                   /\ HasStage =>
                          dict.stage = Some(cur.stages[Len(cur.stages)].stage)
                   /\ NonEmpty("tempBedC") =>
                          dict.bed_temp = Some(Latest("tempBedC"))
                   /\ NonEmpty("tempRoomC") =>
                          dict.room_temp = Some(Latest("tempRoomC"))
                   /\ NonEmpty("respiratoryRate") =>
                          dict.resp_rate = Some(Latest("respiratoryRate"))
                   /\ NonEmpty("heartRate") =>
                          dict.heart_rate = Some(Latest("heartRate"))
                   /\ HasSeries("tnt") =>
                          dict.tnt = Some(Len(cur.timeseries.tnt))

\* C10's case: the stage read while an in-progress session whose stage list
\* ends on another stage than it starts with is ahead of a finished one
C10_Witness ==
    /\ ret.op = "current_sleep_stage"
    /\ ret.exc = "none"
    /\ ret.val = Some("awake")
    /\ users[ret.user].intervals # None
    /\ Len(The(users[ret.user].intervals)) = 2
    /\ IsIncomplete(The(users[ret.user].intervals)[1])
    /\ "stages" \in DOMAIN The(users[ret.user].intervals)[1]
    /\ "stages" \in DOMAIN The(users[ret.user].intervals)[2]
    /\ The(users[ret.user].intervals)[1].stages = StagesShort
    /\ The(users[ret.user].intervals)[2].stages = StagesLong

\* C11: a last_sleep_breakdown read that returns gives, for the completed
\* session it selects, awake + light + deep equal to the sum of the durations
\* of all entries of the session's stage list (whose kinds are awake, light
\* and deep), and each component equal to the sum of the durations of the
\* entries of its kind.
C11_BreakdownSum ==
    (/\ ret.op = "last_sleep_breakdown"
     /\ ret.exc = "none"
     /\ users[ret.user].intervals # None) =>
        LET l == The(users[ret.user].intervals)
            i == IF IsIncomplete(l[1]) THEN 2 ELSE 1
            b == The(ret.val)
            RECURSIVE Total(_)
            Total(xs) == IF xs = <<>> THEN 0
                         ELSE Head(xs).duration + Total(Tail(xs))
            Of(xs, kind) == SelectSeq(xs, LAMBDA x : x.stage = kind)
        IN  "stages" \in DOMAIN l[i] =>
              /\ b.awake + b.light + b.deep = Total(l[i].stages)
              /\ b.awake = Total(Of(l[i].stages, "awake"))
              /\ b.light = Total(Of(l[i].stages, "light"))
              /\ b.deep = Total(Of(l[i].stages, "deep"))

\* C11's case: the breakdown of a finished session of four stages, two of
\* them light, read while a session is in progress ahead of it
C11_Witness ==
    /\ ret.op = "last_sleep_breakdown"
    /\ ret.exc = "none"
    /\ ret.val = Some([awake |-> 300, light |-> 2400, deep |-> 1200])
    /\ users[ret.user].intervals # None
    /\ Len(The(users[ret.user].intervals)) = 2
    /\ IsIncomplete(The(users[ret.user].intervals)[1])

\* C12: a read of a last-view average (last_bed_temp, last_room_temp,
\* last_resp_rate, last_heart_rate) whose selected completed session holds an
\* empty series fails with ZeroDivisionError: it returns no value, neither
\* zero nor None.
C12_EmptySeriesFails ==
    (/\ ret.op \in {"last_bed_temp", "last_room_temp", "last_resp_rate",
                    "last_heart_rate"}
     /\ users[ret.user].intervals # None
     /\ The(users[ret.user].intervals) # <<>>) =>
        LET l == The(users[ret.user].intervals)
            name == CASE ret.op = "last_bed_temp" -> "tempBedC"
                      [] ret.op = "last_room_temp" -> "tempRoomC"
                      [] ret.op = "last_resp_rate" -> "respiratoryRate"
                      [] ret.op = "last_heart_rate" -> "heartRate"
            i == IF IsIncomplete(l[1]) THEN 2 ELSE 1
            selected == /\ i <= Len(l)
                        /\ "incomplete" \in DOMAIN l[1] => l[1].incomplete
            empty == /\ "timeseries" \in DOMAIN l[i]
                     /\ name \in DOMAIN l[i].timeseries
                     /\ l[i].timeseries[name] = <<>>
        IN  (selected /\ empty) =>
                (ret.exc = "ZeroDivisionError" /\ ret.val = None)

\* C12's case: the average heart rate of a finished session without samples,
\* read while a session is in progress ahead of it
C12_Witness ==
    /\ ret.op = "last_heart_rate"
    /\ ret.exc = "ZeroDivisionError"
    /\ users[ret.user].intervals # None
    /\ Len(The(users[ret.user].intervals)) = 2
    /\ IsIncomplete(The(users[ret.user].intervals)[1])
    /\ The(users[ret.user].intervals)[2].timeseries = SeriesEmpty

\* C13 as claimed: device_data returns history element 0 when the history is
\* not empty and fails with NoDataError when it is empty.
C13_NoDataError ==
    ret.op = "device_data" =>
        IF device_json_list = <<>> THEN ret.exc = "NoDataError"
        ELSE ret.exc = "none" /\ ret.val = Some(device_json_list[1])

\* C13, amended: device_data returns history element 0 when the history is
\* not empty and fails with Python's IndexError, returning no value, when it
\* is empty.
C13_IndexError ==
    ret.op = "device_data" =>
        IF device_json_list = <<>> THEN ret.exc = "IndexError" /\ ret.val = None
        ELSE ret.exc = "none" /\ ret.val = Some(device_json_list[1])

\* C13's case: device_data read before the first push
C13_Witness ==
    /\ ret.op = "device_data"
    /\ device_json_list = <<>>
    /\ ret.exc = "IndexError"

\* C14: when the request of a poll cycle fails (the login request of its
\* token renewal, or its device request), update_device_data raises
\* RequestError to its caller; the step leaves the history, the pushes and
\* every occupant as they were, and the coroutine has ended without another
\* request in flight.
C14_FailedFetchPropagates ==
    [][(/\ ret'.op = "update_device_data"
        /\ The(ret'.arg).at \in {"login", "get"}
        /\ ~The(ret'.arg).answered) =>
           /\ ret'.exc = "RequestError"
           /\ device_json_list' = device_json_list
           /\ pushed' = pushed
           /\ users' = users
           /\ cycles'[ret'.user] = "idle"
           /\ \A c \in CycleIds \ {ret'.user} : cycles'[c] = cycles[c]
      ]_vars

\* C14's case: the device request of a cycle has failed while an occupant
\* is present on a history that has been pushed to
C14_Witness ==
    /\ ret.op = "update_device_data"
    /\ The(ret.arg).at = "get"
    /\ ~The(ret.arg).answered
    /\ ret.exc = "RequestError"
    /\ Len(pushed) > HistoryCapacity
    /\ \E u \in DOMAIN users : users[u].presence

\* C15: an occupant is created with presence False, and a step changes an
\* occupant's presence only if it is dynamic_presence, called directly or by
\* update_device_data: handle_device_json, update_user, assign_users and the
\* reads leave every presence as it was.
C15_PresenceFrame ==
    [][\A u \in DOMAIN users' :
          /\ u \notin DOMAIN users => users'[u].presence = FALSE
          /\ (u \in DOMAIN users /\ users'[u].presence # users[u].presence) =>
                 ret'.op \in {"dynamic_presence", "update_device_data"}
      ]_vars

\* C15's case: a push of a snapshot on which the left side reads absent has
\* left a present occupant of the left side present
C15_Witness ==
    /\ ret.op = "handle_device_json"
    /\ device_json_list[1] = SnapC
    /\ "u1" \in DOMAIN users
    /\ users["u1"].side = "Left"
    /\ users["u1"].presence = TRUE

\* C16: when the device request of a poll cycle has been answered, the
\* fetched snapshot is the head of the history, update_device_data returns,
\* presence has been evaluated once for every tracked occupant, and every
\* occupant's presence is the transition function applied to its prior
\* presence and that new head.
C16_PollCycleOrder ==
    (/\ ret.op = "update_device_data"
     /\ The(ret.arg).at = "get"
     /\ The(ret.arg).answered) =>
        LET evaluated == The(ret.val)
            d == device_json_list[1]
        IN  /\ d = pushed[Len(pushed)]
            /\ ret.exc = "none"
            /\ Len(evaluated) = Cardinality(DOMAIN users)
            /\ {evaluated[i] : i \in DOMAIN evaluated} = DOMAIN users
            /\ \A u \in DOMAIN users :
                  LET left == users[u].side \in {"Left", "left"}
                      heating == IF left THEN d.leftNowHeating
                                 ELSE d.rightNowHeating
                      level == IF left THEN d.leftHeatingLevel
                               ELSE d.rightHeatingLevel
                      target == IF left THEN d.leftTargetHeatingLevel
                                ELSE d.rightTargetHeatingLevel
                      heat_delta == IF heating THEN level - target
                                    ELSE level - 10
                  IN  users[u].presence =
                          IF \/ ~heating /\ level <= 15
                             \/ heating /\ heat_delta < 8
                          THEN FALSE
                          ELSE IF heat_delta >= 8 /\ level >= 25 THEN TRUE
                          ELSE The(ret.arg).prior[u].presence

\* C17: the history never holds more than 10 snapshots; a step that changes
\* it replaces it by the pushed snapshot followed by the old history, cut to
\* 10; a step that changes an intervals list replaces it by the whole list of
\* the response; and a read (an accessor, heating_values, current_values,
\* last_values) changes neither and returns values that all come from the
\* one head snapshot, or the one intervals list, of the state it ran in.
C17_AtomicReads ==
    /\ [](Len(device_json_list) <= 10)
    /\ [][/\ device_json_list' # device_json_list =>
                /\ Len(pushed') = Len(pushed) + 1
                /\ device_json_list' =
                       SubSeq(<<pushed'[Len(pushed')]>> \o device_json_list, 1,
                              Min(Len(device_json_list) + 1, 10))
          /\ \A u \in DOMAIN users :
                users'[u].intervals # users[u].intervals =>
                    users'[u].intervals \in {Some(<<>>), Some(ListInProgress)}
          /\ ret'.op \in Accessors \cup {"current_values", "last_values"} =>
                /\ device_json_list' = device_json_list
                /\ users' = users
          /\ (ret'.op \in Accessors /\ ret'.exc = "none") =>
                LET d == device_json_list[1]
                    left == users[ret'.user].side = "Left"
                    level == IF left THEN d.leftHeatingLevel
                             ELSE d.rightHeatingLevel
                    target == IF left THEN d.leftTargetHeatingLevel
                              ELSE d.rightTargetHeatingLevel
                    active == IF left THEN d.leftNowHeating
                              ELSE d.rightNowHeating
                    remaining == IF left THEN d.leftHeatingDuration
                                 ELSE d.rightHeatingDuration
                IN  ret'.val =
                        CASE ret'.op = "heating_level" -> Some(level)
                          [] ret'.op = "target_heating_level" -> Some(target)
                          [] ret'.op = "now_heating" -> Some(active)
                          [] ret'.op = "heating_remaining" -> Some(remaining)
                          [] ret'.op = "heating_values" ->
                                 Some([level |-> Some(level),
                                       target |-> Some(target),
                                       active |-> Some(active),
                                       remaining |-> Some(remaining)])
          /\ (ret'.op = "current_values" /\ ret'.exc = "none") =>
                LET l == The(users[ret'.user].intervals)
                    v == The(ret'.val)
                IN  /\ v.score = Some(l[1].score)
                    /\ v.stage = Some(l[1].stages[Len(l[1].stages)].stage)
                    /\ v.tnt = Some(Len(l[1].timeseries.tnt))
          /\ (ret'.op = "last_values" /\ ret'.exc = "none") =>
                LET l == The(users[ret'.user].intervals)
                    v == The(ret'.val)
                IN  /\ v.score = Some(l[2].score)
                    /\ v.tnt = Some(Len(l[2].timeseries.tnt))
         ]_vars

\* C17's case: last_values has returned the score of the finished session
\* of a list that replaced another, on a history that has been pushed to
C17_Witness ==
    /\ ret.op = "last_values"
    /\ ret.exc = "none"
    /\ The(ret.val).score = Some(80)
    /\ Len(pushed) > HistoryCapacity
    /\ Len(device_json_list) = HistoryCapacity
    /\ device_json_list[1] = SnapC

\* C18: with poll cycles overlapping, every evaluation of an occupant's
\* presence that returns, in update_device_data or called directly, leaves
\* presence at the transition function applied to the presence it found and
\* to the head snapshot of that moment.
C18_SerializedPresence ==
    LET d == device_json_list[1]
        Transition(u, prior) ==
            LET left == users[u].side = "Left"
                heating == IF left THEN d.leftNowHeating ELSE d.rightNowHeating
                level == IF left THEN d.leftHeatingLevel ELSE d.rightHeatingLevel
                target == IF left THEN d.leftTargetHeatingLevel
                          ELSE d.rightTargetHeatingLevel
                heat_delta == IF heating THEN level - target ELSE level - 10
            IN  IF (~heating /\ level <= 15) \/ (heating /\ heat_delta < 8)
                THEN FALSE
                ELSE IF heat_delta >= 8 /\ level >= 25 THEN TRUE
                ELSE prior
    IN  /\ (ret.op = "update_device_data" /\ The(ret.arg).at = "get") =>
               \A i \in DOMAIN The(ret.val) :
                   LET u == The(ret.val)[i]
                   IN  users[u].presence =
                           Transition(u, The(ret.arg).prior[u].presence)
        /\ (ret.op = "dynamic_presence" /\ ret.exc = "none") =>
               users[ret.user].presence = Transition(ret.user, The(ret.arg))

\* C18's case: a cycle has evaluated two occupants on the snapshot it pushed,
\* turning the first present, while another cycle is suspended in its request
C18_Witness ==
    /\ ret.op = "update_device_data"
    /\ ret.exc = "none"
    /\ The(ret.val) = <<"u1", "u2">>
    /\ device_json_list[1] = SnapA
    /\ The(ret.arg).prior["u1"].presence = FALSE
    /\ users["u1"].presence = TRUE
    /\ users["u2"].presence = FALSE
    /\ \E c \in CycleIds : cycles[c] = "get"

\* C19 as claimed: the order of the two tests is observable: for every
\* occupant there are a prior presence and a head snapshot for which testing
\* the absent-conditions first and the present-condition last gives another
\* presence than dynamic_presence does.
C19_OrderObservable ==
    \A u \in DOMAIN users :
        \E p \in BOOLEAN, d \in Snapshots :
            LET self == [users[u] EXCEPT !.presence = p]
            IN  dynamic_presence_swapped(self, <<d>>).presence
                    # dynamic_presence(self, <<d>>).presence

\* C19, amended: the present-condition and the absent-conditions never hold
\* together, so no transition wins over another and the order of the tests
\* is not observable: every evaluation that returns leaves the presence that
\* testing the absent-conditions first and the present-condition last gives.
C19_OrderNotObservable ==
    (ret.op = "dynamic_presence" /\ ret.exc = "none") =>
        LET u == ret.user
            d == device_json_list[1]
            left == users[u].side = "Left"
            heating == IF left THEN d.leftNowHeating ELSE d.rightNowHeating
            level == IF left THEN d.leftHeatingLevel ELSE d.rightHeatingLevel
            target == IF left THEN d.leftTargetHeatingLevel
                      ELSE d.rightTargetHeatingLevel
            heat_delta == IF heating THEN level - target ELSE level - 10
            present == heat_delta >= 8 /\ level >= 25
            absent == (~heating /\ level <= 15) \/ (heating /\ heat_delta < 8)
            first == IF absent THEN FALSE ELSE The(ret.arg)
        IN  /\ ~(present /\ absent)
            /\ users[u].presence = IF present THEN TRUE ELSE first

\* C19's case: a present occupant evaluated while heating at level 25, one
\* short of a heat_delta of 8, and now absent
C19_Witness ==
    /\ ret.op = "dynamic_presence"
    /\ ret.exc = "none"
    /\ ret.arg = Some(TRUE)
    /\ users[ret.user].side = "Right"
    /\ users[ret.user].presence = FALSE
    /\ device_json_list[1].rightNowHeating = TRUE
    /\ device_json_list[1].rightHeatingLevel = 25
    /\ device_json_list[1].rightTargetHeatingLevel = 18

\* C20: a read of an accessor, of a property of a view, of heating_values,
\* current_values or last_values leaves the history and every occupant (its
\* intervals list, presence and past_heating_level) as they were; a read
\* that follows a read of the same property of the same occupant raises or
\* returns as that one did, and returns the same value but for the date.
C20_PureReads ==
    [][ret'.op \in Accessors \cup CurrentFields \cup LastFields
                   \cup {"current_values", "last_values"} =>
          /\ device_json_list' = device_json_list
          /\ users' = users
          /\ (ret.op = ret'.op /\ ret.user = ret'.user) =>
                /\ ret'.exc = ret.exc
                /\ ret.op \notin {"current_session_date", "last_session_date",
                                  "current_values", "last_values"} =>
                       ret'.val = ret.val
                /\ (ret.op \in {"current_values", "last_values"}
                        /\ ret.exc = "none") =>
                       \A k \in DOMAIN The(ret.val) \ {"date"} :
                           The(ret'.val)[k] = The(ret.val)[k]
      ]_vars

\* C20's case: last_values has returned to a caller two hours ahead of UTC
\* after update_user has stored the heating level
C20_Witness ==
    /\ ret.op = "last_values"
    /\ ret.exc = "none"
    /\ ret.arg = Some(7200)
    /\ users[ret.user].past_heating_level # None
    /\ The(ret.val).score = Some(80)

\* C21: when a poll cycle has pushed the fetched snapshot and evaluated
\* presence, the presence of every occupant is the one the same cycle leaves
\* from the same prior presences and the same head snapshot with any other
\* older snapshots in the history, any other recorded past_heating_level
\* and any other intervals list.
C21_PresenceIndependence ==
    [][(/\ ret'.op = "update_device_data"
        /\ The(ret'.arg).at = "get"
        /\ The(ret'.arg).answered) =>
          LET head == device_json_list'[1]
              older == {<<>>, <<SnapA>>, <<SnapC, SnapB>>,
                        [i \in 1..(HistoryCapacity - 1) |-> SnapC]}
              past == {None, Some(12), Some(30)}
              lists == {None, Some(<<>>), Some(ListInProgress)}
          IN  \A o \in older, p \in past, l \in lists :
                 LET other == [u \in DOMAIN users |->
                                  [users[u] EXCEPT !.past_heating_level = p,
                                                   !.intervals = l]]
                     res == update_device_data_result(
                                o, other, user_order,
                                [answered |-> TRUE, result |-> Some(head)])
                 IN  /\ res.exc = ret'.exc
                     /\ \A u \in DOMAIN users :
                           users'[u].presence = res.users[u].presence
      ]_vars

\* C21's case: a poll cycle has turned the presence of u1 from False to True
\* after update_user recorded a heating level and stored an intervals list
C21_Witness ==
    /\ ret.op = "update_device_data"
    /\ ret.exc = "none"
    /\ The(ret.arg).at = "get"
    /\ "u1" \in DOMAIN users
    /\ ~The(ret.arg).prior["u1"].presence
    /\ users["u1"].presence
    /\ users["u1"].past_heating_level # None
    /\ users["u1"].intervals = Some(ListInProgress)

\* C22: a start() that authenticates, finds a device and gets the device's
\* user ids while the snapshot history is empty returns True and has an
\* occupant registered for each side that has a user id.
C22_StartupRegisters ==
    (/\ ret.op = "start"
     /\ ret.arg # None
     /\ The(ret.arg).answered
     /\ The(ret.arg).profiled
     /\ device_ids # <<>>
     /\ device_json_list = <<>>) =>
        /\ ret.exc = "none"
        /\ ret.val = Some(TRUE)
        /\ The(ret.arg).leftUserId \subseteq DOMAIN users
        /\ The(ret.arg).rightUserId \subseteq DOMAIN users

\* C23: after an assign_users call (alone or in start), every tracked
\* occupant is bound to one of the two sides, no two tracked occupants are
\* bound to the same side, and fetch_user_id(side) returns the one occupant
\* bound to that side.
C23_OneOccupantPerSide ==
    ret.op \in {"assign_users", "start"} =>
        /\ \A u \in DOMAIN users : users[u].side \in {"left", "right"}
        /\ \A u, v \in DOMAIN users :
              u # v => users[u].side # users[v].side
        /\ \A u \in DOMAIN users :
              fetch_user_id(users, user_order, users[u].side) = Some(u)

\* C24: over start and stop calls in any order, a stop closes a session only
\* when it is an open session that start created, and then drops it, so that
\* it cannot be closed again; the caller's session is never closed or
\* dropped; a session only ever changes by start creating one where there is
\* none or by stop closing the internal one; and a stop without an open
\* internal session changes nothing.
C24_SessionOwnership ==
    [][LET closes == ret'.op = "stop" /\ ret'.arg = Some("close")
       IN  /\ closes => /\ api_session = "internal"
                        /\ internal_session
                        /\ api_session' = "None"
           /\ api_session = "external" =>
                 /\ api_session' = "external"
                 /\ ~closes
                 /\ ~internal_session'
           /\ api_session' # api_session =>
                 \/ closes
                 \/ /\ ret'.op = "start"
                    /\ api_session = "None"
                    /\ api_session' = "internal"
                    /\ internal_session'
           /\ (ret'.op = "stop" /\ ~(internal_session /\ api_session = "internal")) =>
                 /\ ~closes
                 /\ UNCHANGED <<device_json_list, users, api_session,
                                internal_session, token, device_ids, assigned,
                                pushed, token_expiration, user_order, cycles>>
      ]_vars

\* C24's case: stop has closed the session that start created, after start
\* registered an occupant
C24_Witness ==
    /\ ret.op = "stop"
    /\ ret.arg = Some("close")
    /\ api_session = "None"
    /\ internal_session
    /\ users # <<>>


====
